---------------------------- MODULE Spec2Model ----------------------------
(***************************************************************************)
(* Lead-filtering actor: the response normalisation pipeline               *)
(* (src/src/llm_client.py), the output record (src/src/models.py) and the  *)
(* orchestration loop (src/src/main.py).                                   *)
(*                                                                         *)
(* Python values are modelled as tagged records [t, v]:                    *)
(*   None, bool, int, float, str, list, dict.                              *)
(* A str is a sequence of symbols.  A symbol is one character; a fixed     *)
(* text that the code only copies or concatenates (a log or exception      *)
(* message, a company name) is written as one symbol.                      *)
(* A call either returns a value or raises: [exc, msg, val].               *)
(***************************************************************************)
EXTENDS Integers, Sequences, FiniteSets, TLC

VARIABLES
    pc,           \* main: position in main()
    actor_input,  \* main: what Actor.get_input() returns
    input_data,   \* main: the validated ActorInput (its leads), or None
    idx,          \* main: 1-based index of the lead the for loop is at
    dataset,      \* main: the records pushed with Actor.push_data, in order
    handled,      \* main: number of leads whose loop iteration was entered
    ev_pc,        \* llm_client: "start" | "done"
    ev_lead,      \* llm_client: the LeadInput under evaluation
    ev_env,       \* llm_client: whether OPENAI_API_KEY is set
    ev_call,      \* llm_client: what the chat completion call does
    ev_via,       \* llm_client: which function produced ev_result
    ev_result,    \* llm_client: what that function returned or raised
    ex_pc,        \* extractor: "start" | "done"
    ex_json,      \* extractor: a JSON object text j
    ex_out,       \* extractor: extract_json_from_response(fenced j)
    ex_direct     \* extractor: json.loads(j)

vars == <<pc, actor_input, input_data, idx, dataset, handled,
          ev_pc, ev_lead, ev_env, ev_call, ev_via, ev_result,
          ex_pc, ex_json, ex_out, ex_direct>>

main_vars == <<pc, actor_input, input_data, idx, dataset, handled>>
ev_vars == <<ev_pc, ev_lead, ev_env, ev_call, ev_via, ev_result>>
ex_vars == <<ex_pc, ex_json, ex_out, ex_direct>>

---------------------------------------------------------------------------
(* Bounds of the model.                                                    *)

\* longest leads list of an actor input
MaxLeads == 2
\* longest generated raw score string
MaxNumLen == 3
\* longest generated string inside a JSON object text
MaxStrLen == 3

---------------------------------------------------------------------------
(* Python values.                                                          *)

None == [t |-> "null", v |-> 0]
JBool(b) == [t |-> "bool", v |-> b]
JInt(n) == [t |-> "int", v |-> n]
JFloat(f) == [t |-> "float", v |-> f]
JStr(s) == [t |-> "str", v |-> s]
JList(xs) == [t |-> "list", v |-> xs]
JDict(d) == [t |-> "dict", v |-> d]

\* a text the code never looks into, as one symbol
Lit(s) == <<s>>

EmptyDict == <<>>

\* A float is finite (n thousandths, saturated at +-FloatCap thousandths:
\* the code only truncates and clamps it), an infinity (n = +-1) or a NaN.
FloatCap == 100000000
Fin(n) == [cls |-> "fin", n |-> n]
Inf(sgn) == [cls |-> "inf", n |-> sgn]
NaN == [cls |-> "nan", n |-> 0]

Ret(v) == [exc |-> "", msg |-> <<>>, val |-> v]
Raise(e, m) == [exc |-> e, msg |-> m, val |-> None]

\* bool(x)
Truthy(x) ==
    CASE x.t = "null" -> FALSE
      [] x.t = "bool" -> x.v
      [] x.t = "int" -> x.v # 0
      [] x.t = "float" -> ~(x.v.cls = "fin" /\ x.v.n = 0)
      [] x.t = "str" -> x.v # <<>>
      [] x.t = "list" -> x.v # <<>>
      [] x.t = "dict" -> DOMAIN x.v # {}

\* dict.get(key, default)
Get(d, k, default) == IF k \in DOMAIN d THEN d[k] ELSE default

---------------------------------------------------------------------------
(* str methods.                                                            *)

LowerCase == <<"a","b","c","d","e","f","g","h","i","j","k","l","m",
               "n","o","p","q","r","s","t","u","v","w","x","y","z">>
UpperCase == <<"A","B","C","D","E","F","G","H","I","J","K","L","M",
               "N","O","P","Q","R","S","T","U","V","W","X","Y","Z">>
Whitespace == {" ", "\t", "\n", "\r"}
DigitChars == <<"0","1","2","3","4","5","6","7","8","9">>

Range(s) == {s[i] : i \in DOMAIN s}

UpperChar(c) ==
    IF c \in Range(LowerCase)
    THEN UpperCase[CHOOSE i \in 1..26 : LowerCase[i] = c]
    ELSE c

LowerChar(c) ==
    IF c \in Range(UpperCase)
    THEN LowerCase[CHOOSE i \in 1..26 : UpperCase[i] = c]
    ELSE c

\* str.upper()
Upper(s) == [i \in 1..Len(s) |-> UpperChar(s[i])]
\* str.lower()
Lower(s) == [i \in 1..Len(s) |-> LowerChar(s[i])]

\* str.strip()
Strip(s) ==
    LET keep == {i \in 1..Len(s) : s[i] \notin Whitespace}
    IN  IF keep = {} THEN <<>>
        ELSE LET lo == CHOOSE i \in keep : \A j \in keep : i <= j
                 hi == CHOOSE i \in keep : \A j \in keep : i >= j
             IN  SubSeq(s, lo, hi)

IsDigit(c) == c \in Range(DigitChars)
DigitVal(c) == (CHOOSE i \in 1..10 : DigitChars[i] = c) - 1

\* decimal digits of a natural number
RECURSIVE NatDigits(_)
NatDigits(n) ==
    IF n < 10 THEN <<DigitChars[n + 1]>>
    ELSE NatDigits(n \div 10) \o <<DigitChars[(n % 10) + 1]>>

\* str(int)
IntStr(n) == IF n < 0 THEN <<"-">> \o NatDigits(-n) ELSE NatDigits(n)


---------------------------------------------------------------------------
(* float(x) and int(x).                                                    *)

\* the index after the run of decimal digits of s that starts at i
RECURSIVE ScanDigits(_, _)
ScanDigits(s, i) ==
    IF i <= Len(s) /\ IsDigit(s[i]) THEN ScanDigits(s, i + 1) ELSE i

\* the number written by the digits s, saturated at FloatCap
RECURSIVE DigitsNat(_, _, _)
DigitsNat(s, i, acc) ==
    IF i > Len(s) THEN acc
    ELSE IF acc >= FloatCap \div 10 THEN FloatCap
    ELSE DigitsNat(s, i + 1, acc * 10 + DigitVal(s[i]))

\* 10^k for 0 <= k <= 8
Pow10(k) == 10 ^ k

\* m * 10^k in thousandths-free form, saturated at FloatCap
Scale10(m, k) ==
    IF m = 0 THEN 0
    ELSE IF k >= 0
         THEN IF k > 8 THEN FloatCap
              ELSE IF m > FloatCap \div Pow10(k) THEN FloatCap
              ELSE m * Pow10(k)
         ELSE IF -k > 8 THEN 0 ELSE m \div Pow10(-k)

\* the first four significant digits of m > 0, as a number in 1000..9999
Lead4(m) ==
    LET d == Len(NatDigits(m))
    IN  IF d <= 4 THEN m * Pow10(4 - d) ELSE m \div Pow10(d - 4)

\* Whether the decimal m * 10^e (m > 0) exceeds the largest double,
\* 1.7976931348623157e308, and so reads as an infinity.
ExceedsDouble(m, e) ==
    LET order == Len(NatDigits(m)) + e
    IN  \/ order >= 310
        \/ order = 309 /\ Lead4(m) >= 1798

InfWords == { <<"i","n","f">>, <<"i","n","f","i","n","i","t","y">> }
NanWord == <<"n","a","n">>

\* the value of the decimal with the digits mant and the decimal exponent e
FloatValue(sgn, mant, e) ==
    IF mant > 0 /\ ExceedsDouble(mant, e) THEN Ret(JFloat(Inf(sgn)))
    ELSE Ret(JFloat(Fin(sgn * Scale10(mant, e + 3))))

\* the index of the first exponent digit when b has an exponent mark at i2
\* (with an optional sign); i2 otherwise
ExpStart(b, i2) ==
    IF i2 <= Len(b) /\ b[i2] \in {"e", "E"}
    THEN (IF i2 + 1 <= Len(b) /\ b[i2 + 1] \in {"+", "-"} THEN i2 + 2 ELSE i2 + 1)
    ELSE i2

\* the exponent written in b[i3 .. i4 - 1], signed by the symbol before it
ExpOf(b, i2, i3, i4) ==
    IF i3 = i2 THEN 0
    ELSE IF b[i3 - 1] = "-" THEN -DigitsNat(SubSeq(b, i3, i4 - 1), 1, 0)
    ELSE DigitsNat(SubSeq(b, i3, i4 - 1), 1, 0)

\* b: the text after the sign; the integer digits end before i1, the
\* fraction before i2, the exponent digits are b[i3 .. i4 - 1]
FloatEnd(b, sgn, i1, i2, i3, i4) ==
    IF /\ (i1 - 1) + (IF i2 > i1 THEN i2 - i1 - 1 ELSE 0) >= 1
       /\ i3 > i2 => i4 > i3
       /\ i4 = Len(b) + 1
    THEN FloatValue(sgn,
                    DigitsNat(SubSeq(b, 1, i1 - 1) \o SubSeq(b, i1 + 1, i2 - 1), 1, 0),
                    ExpOf(b, i2, i3, i4) - (IF i2 > i1 THEN i2 - i1 - 1 ELSE 0))
    ELSE Raise("ValueError", Lit("could not convert string to float"))

FloatExp(b, sgn, i1, i2, i3) ==
    FloatEnd(b, sgn, i1, i2, i3, IF i3 > i2 THEN ScanDigits(b, i3) ELSE i2)

FloatFrac(b, sgn, i1, i2) == FloatExp(b, sgn, i1, i2, ExpStart(b, i2))

FloatDecimal(b, sgn, i1) ==
    FloatFrac(b, sgn, i1,
              IF i1 <= Len(b) /\ b[i1] = "." THEN ScanDigits(b, i1 + 1) ELSE i1)

FloatOfBody(b, sgn) ==
    IF Lower(b) \in InfWords THEN Ret(JFloat(Inf(sgn)))
    ELSE IF Lower(b) = NanWord THEN Ret(JFloat(NaN))
    ELSE FloatDecimal(b, sgn, ScanDigits(b, 1))

FloatOfStripped(t) ==
    IF t # <<>> /\ t[1] \in {"+", "-"}
    THEN FloatOfBody(Tail(t), IF t[1] = "-" THEN -1 ELSE 1)
    ELSE FloatOfBody(t, 1)

\* float(s) for a str s: surrounding whitespace is ignored, then an optional
\* sign, then inf, infinity or nan in any case, or a decimal with an optional
\* fraction and exponent.  Anything else is a ValueError.
FloatOfStr(s) == FloatOfStripped(Strip(s))

\* float(x)
PyFloat(x) ==
    CASE x.t = "float" -> Ret(x)
      [] x.t = "int" -> Ret(JFloat(Fin(x.v * 1000)))
      [] x.t = "bool" -> Ret(JFloat(Fin(IF x.v THEN 1000 ELSE 0)))
      [] x.t = "str" -> FloatOfStr(x.v)
      [] OTHER ->
           Raise("TypeError",
                 Lit("float() argument must be a string or a real number"))

\* int(f) for a float f: truncation toward zero
IntOfFloat(f) ==
    CASE f.cls = "inf" ->
           Raise("OverflowError",
                 Lit("cannot convert float infinity to integer"))
      [] f.cls = "nan" ->
           Raise("ValueError", Lit("cannot convert float NaN to integer"))
      [] OTHER ->
           Ret(IF f.n >= 0 THEN f.n \div 1000 ELSE -((-f.n) \div 1000))

Max2(a, b) == IF a >= b THEN a ELSE b
Min2(a, b) == IF a <= b THEN a ELSE b

\* isinstance(x, int): bool is a subclass of int
IsInstanceInt(x) == x.t \in {"int", "bool"}
IntValue(x) == IF x.t = "bool" THEN (IF x.v THEN 1 ELSE 0) ELSE x.v

ScoreMin == 0
ScoreMax == 100

Clamp(n) == Max2(ScoreMin, Min2(ScoreMax, n))

\* int(float(raw)) under the handler except (ValueError, TypeError): f is
\* what float(raw) returned or raised
IntOfCoerced(f) ==
    IF f.exc # "" THEN f ELSE IntOfFloat(f.val.v)

ScoreOfCoerced(i) ==
    IF i.exc \in {"ValueError", "TypeError"} THEN Ret(Clamp(0))
    ELSE IF i.exc # "" THEN i
    ELSE Ret(Clamp(i.val))

\* CoerceScore with an upper limit one below ScoreMax: the pass-through of
\* a score of ScoreMax (C9) must fail with it
CoerceScore_below_max(raw) ==
    IF IsInstanceInt(raw) THEN Ret(Max2(ScoreMin, Min2(ScoreMax - 1, IntValue(raw))))
    ELSE ScoreOfCoerced(IntOfCoerced(PyFloat(raw)))

\* llm_client.py 112-118 and 120-126: one score field of the reply.
\* Only ValueError and TypeError are caught; any other exception leaves
\* normalize_evaluation.
CoerceScore(raw) ==
    IF IsInstanceInt(raw) THEN Ret(Clamp(IntValue(raw)))
    ELSE ScoreOfCoerced(IntOfCoerced(PyFloat(raw)))

---------------------------------------------------------------------------
(* str(x).                                                                 *)

\* the three fractional digits of |n| thousandths without trailing zeros,
\* at least one digit
FracDigits(n) ==
    LET f == (IF n < 0 THEN -n ELSE n) % 1000
        d == <<DigitChars[(f \div 100) + 1], DigitChars[((f \div 10) % 10) + 1],
               DigitChars[(f % 10) + 1]>>
    IN  IF f % 100 = 0 THEN SubSeq(d, 1, 1)
        ELSE IF f % 10 = 0 THEN SubSeq(d, 1, 2)
        ELSE d

\* repr of a float (fixed notation: the finite floats of the model are small)
FloatStr(f) ==
    CASE f.cls = "inf" -> IF f.n < 0 THEN <<"-","i","n","f">> ELSE <<"i","n","f">>
      [] f.cls = "nan" -> NanWord
      [] OTHER ->
           (IF f.n < 0 THEN <<"-">> ELSE <<>>)
           \o NatDigits((IF f.n < 0 THEN -f.n ELSE f.n) \div 1000)
           \o <<".">> \o FracDigits(f.n)

\* the keys of a dict in the order str() lists them (one order is chosen:
\* the model does not keep insertion order)
RECURSIVE KeyOrder(_)
KeyOrder(ks) ==
    IF ks = {} THEN <<>>
    ELSE LET k == CHOOSE x \in ks : TRUE IN <<k>> \o KeyOrder(ks \ {k})

\* repr(x); str(x) differs from it only for a str
RECURSIVE PyRepr(_)
RECURSIVE JoinRepr(_, _)
JoinRepr(xs, i) ==
    IF i > Len(xs) THEN <<>>
    ELSE (IF i > 1 THEN <<",", " ">> ELSE <<>>) \o PyRepr(xs[i]) \o JoinRepr(xs, i + 1)

PyRepr(x) ==
    CASE x.t = "null" -> <<"N","o","n","e">>
      [] x.t = "bool" -> IF x.v THEN <<"T","r","u","e">> ELSE <<"F","a","l","s","e">>
      [] x.t = "int" -> IntStr(x.v)
      [] x.t = "float" -> FloatStr(x.v)
      [] x.t = "str" -> <<"'">> \o x.v \o <<"'">>
      [] x.t = "list" -> <<"[">> \o JoinRepr(x.v, 1) \o <<"]">>
      [] x.t = "dict" ->
           LET ks == KeyOrder(DOMAIN x.v)
               items == [i \in 1..Len(ks) |->
                           JStr(<<"'", ks[i], "'", ":", " ">> \o PyRepr(x.v[ks[i]]))]
               RECURSIVE JoinItems(_)
               JoinItems(i) ==
                   IF i > Len(ks) THEN <<>>
                   ELSE (IF i > 1 THEN <<",", " ">> ELSE <<>>)
                        \o items[i].v \o JoinItems(i + 1)
           IN  <<"{">> \o JoinItems(1) \o <<"}">>

\* str(x)
PyStr(x) == IF x.t = "str" THEN x.v ELSE PyRepr(x)

---------------------------------------------------------------------------
(* models.py: the output record.                                           *)

LOW == <<"L","O","W">>
MEDIUM == <<"M","E","D","I","U","M">>
HIGH == <<"H","I","G","H">>
Levels == {LOW, MEDIUM, HIGH}

Unknown == Lit("Unknown")
NoReasons == Lit("No reasons provided")

W6HFields == {"who", "what", "where", "when", "why", "how", "how_much"}

\* models.py 29-48: LeadEvaluation(**kw) validates its fields.  The callers
\* pass values of the declared types; a score outside 0..100 or a level
\* outside the three literals is a ValidationError.
LeadEvaluation(kw) ==
    IF /\ kw.website_quality_score \in ScoreMin..ScoreMax
       /\ kw.online_presence_score \in ScoreMin..ScoreMax
       /\ kw.branding_need \in Levels
       /\ kw.brand_value_match \in Levels
    THEN Ret(kw)
    ELSE Raise("ValidationError", Lit("validation error for LeadEvaluation"))

\* the W6H record with every field "Unknown" but where
UnknownW6H(where) ==
    [who |-> Unknown, what |-> Unknown, where |-> where, when |-> Unknown,
     why |-> Unknown, how |-> Unknown, how_much |-> Unknown]

---------------------------------------------------------------------------
(* llm_client.py: normalize_evaluation.                                    *)

\* lead.location or "Unknown"
LocationOrUnknown(lead) ==
    IF Truthy(lead.location) THEN lead.location.v ELSE Unknown

\* llm_client.py 89-109: the error path
ErrorEvaluation(lead, error) ==
    LeadEvaluation([company_name |-> lead.company_name,
                    website_url |-> lead.website_url,
                    website_quality_score |-> 0,
                    branding_need |-> LOW,
                    online_presence_score |-> 0,
                    brand_value_match |-> LOW,
                    w6h |-> UnknownW6H(LocationOrUnknown(lead)),
                    qualified |-> FALSE,
                    reasons |-> <<Lit("Evaluation failed: ") \o error>>,
                    error |-> JStr(error)])

\* NormalizeLevel without upper(): C7 must fail with it
NormalizeLevel_no_upper(raw) ==
    IF raw.t = "str"
    THEN LET u == Strip(raw.v)
         IN  IF u \notin Levels THEN LOW ELSE u
    ELSE LOW

\* llm_client.py 129-135 and 138-144: one level field of the reply
NormalizeLevel(raw) ==
    IF raw.t = "str"
    THEN LET u == Strip(Upper(raw.v))
         IN  IF u \notin Levels THEN LOW ELSE u
    ELSE LOW

\* llm_client.py 147-156: the W6H record.  w6h_data.get is an attribute of a
\* dict only.
ExtractW6H(lead, w6h_data) ==
    IF w6h_data.t # "dict"
    THEN Raise("AttributeError", Lit("object has no attribute 'get'"))
    ELSE Ret([f \in W6HFields |->
                PyStr(Get(w6h_data.v, Lit(f),
                          JStr(IF f = "where" THEN LocationOrUnknown(lead)
                               ELSE Unknown)))])

\* llm_client.py 159-161
ExtractQualified(raw) == IF raw.t = "bool" THEN raw.v ELSE Truthy(raw)

\* ApplyOverride without the rule of line 166: C3 must fail with it
ApplyOverride_no_low_rule(qualified, website_quality_score, branding_need, brand_value_match) ==
    IF website_quality_score < 0 \/ website_quality_score > 100
    THEN FALSE ELSE qualified

\* llm_client.py 164-167: the override rules
ApplyOverride(qualified, website_quality_score, branding_need, brand_value_match) ==
    LET q1 == IF website_quality_score < 0 \/ website_quality_score > 100
              THEN FALSE ELSE qualified
    IN  IF branding_need = LOW /\ brand_value_match = LOW THEN FALSE ELSE q1

\* [str(r) for r in reasons if r]
RECURSIVE TruthyStrs(_)
TruthyStrs(xs) ==
    IF xs = <<>> THEN <<>>
    ELSE (IF Truthy(Head(xs)) THEN <<PyStr(Head(xs))>> ELSE <<>>)
         \o TruthyStrs(Tail(xs))

\* ExtractReasons without the default of lines 174-175: C8 must fail with it
ExtractReasons_no_default(raw) ==
    TruthyStrs(IF raw.t # "list"
               THEN (IF Truthy(raw) THEN <<JStr(PyStr(raw))>> ELSE <<>>)
               ELSE raw.v)

\* llm_client.py 170-175
ExtractReasons(raw) ==
    LET lst == IF raw.t # "list"
               THEN (IF Truthy(raw) THEN <<JStr(PyStr(raw))>> ELSE <<>>)
               ELSE raw.v
        strs == TruthyStrs(lst)
    IN  IF strs = <<>> THEN <<NoReasons>> ELSE strs

\* llm_client.py 82-187.  llm_response.get is an attribute of a dict only.
normalize_evaluation(lead, llm_response, error) ==
    IF Truthy(error) THEN ErrorEvaluation(lead, error.v)
    ELSE IF llm_response.t # "dict"
    THEN Raise("AttributeError", Lit("object has no attribute 'get'"))
    ELSE
    LET r == llm_response.v
        wqs == CoerceScore(Get(r, Lit("website_quality_score"), JInt(0)))
        ops == CoerceScore(Get(r, Lit("online_presence_score"), JInt(0)))
        branding_need == NormalizeLevel(Get(r, Lit("branding_need"), JStr(LOW)))
        brand_value_match == NormalizeLevel(Get(r, Lit("brand_value_match"), JStr(LOW)))
        w6h == ExtractW6H(lead, Get(r, Lit("w6h"), JDict(EmptyDict)))
        qualified == ApplyOverride(ExtractQualified(Get(r, Lit("qualified"), JBool(FALSE))),
                                   wqs.val, branding_need, brand_value_match)
        reasons == ExtractReasons(Get(r, Lit("reasons"), JList(<<>>)))
    IN  IF wqs.exc # "" THEN wqs
        ELSE IF ops.exc # "" THEN ops
        ELSE IF w6h.exc # "" THEN w6h
        ELSE LeadEvaluation([company_name |-> lead.company_name,
                             website_url |-> lead.website_url,
                             website_quality_score |-> wqs.val,
                             branding_need |-> branding_need,
                             online_presence_score |-> ops.val,
                             brand_value_match |-> brand_value_match,
                             w6h |-> w6h.val,
                             qualified |-> qualified,
                             reasons |-> reasons,
                             error |-> None])

---------------------------------------------------------------------------
(* json.loads on a text.  A parse step returns [ok, val, pos]: whether it  *)
(* matched, the value, and the index after it.                             *)

POk(v, p) == [ok |-> TRUE, val |-> v, pos |-> p]
PFail(p) == [ok |-> FALSE, val |-> None, pos |-> p]

\* whether s holds the symbols w from index i on
StartsWith(s, i, w) == i + Len(w) - 1 <= Len(s) /\ SubSeq(s, i, i + Len(w) - 1) = w

\* the index of the first non-whitespace symbol of s from i on
RECURSIVE SkipWs(_, _)
SkipWs(s, i) == IF i <= Len(s) /\ s[i] \in Whitespace THEN SkipWs(s, i + 1) ELSE i

Quote == "\""
Backslash == "\\"
ControlChars == {"\t", "\n", "\r"}

\* what the symbol after a backslash stands for (\u escapes are not modelled)
Escapes == (Quote :> Quote) @@ (Backslash :> Backslash) @@ ("/" :> "/")
           @@ ("n" :> "\n") @@ ("t" :> "\t") @@ ("r" :> "\r")

\* a JSON string whose opening quote is at i - 1: the symbols up to the
\* closing quote; a raw control character or a bad escape is an error
RECURSIVE ParseChars(_, _, _)
ParseChars(s, i, acc) ==
    IF i > Len(s) THEN PFail(i)
    ELSE IF s[i] = Quote THEN POk(JStr(acc), i + 1)
    ELSE IF s[i] \in ControlChars THEN PFail(i)
    ELSE IF s[i] = Backslash
    THEN IF i + 1 <= Len(s) /\ s[i + 1] \in DOMAIN Escapes
         THEN ParseChars(s, i + 2, Append(acc, Escapes[s[i + 1]]))
         ELSE PFail(i)
    ELSE ParseChars(s, i + 1, Append(acc, s[i]))

DigitAt(s, k) == k <= Len(s) /\ IsDigit(s[k])

NumStart(s, i) == IF s[i] = "-" THEN i + 1 ELSE i
IntEnd(s, j) == IF s[j] = "0" THEN j + 1 ELSE ScanDigits(s, j)
FracEnd(s, a) ==
    IF a <= Len(s) /\ s[a] = "." /\ DigitAt(s, a + 1) THEN ScanDigits(s, a + 1) ELSE a
ExpEnd(s, b) ==
    IF DigitAt(s, ExpStart(s, b)) /\ ExpStart(s, b) > b
    THEN ScanDigits(s, ExpStart(s, b)) ELSE b

\* the token s[i .. end - 1], whose integer part ends before a
NumToken(s, i, a, end) ==
    IF end > a THEN POk(FloatOfStr(SubSeq(s, i, end - 1)).val, end)
    ELSE POk(JInt((IF s[i] = "-" THEN -1 ELSE 1)
                  * DigitsNat(SubSeq(s, NumStart(s, i), a - 1), 1, 0)), a)

NumInt(s, i, a) == NumToken(s, i, a, ExpEnd(s, FracEnd(s, a)))

\* a JSON number at i: -?(0|[1-9][0-9]*)(\.[0-9]+)?([eE][+-]?[0-9]+)?
\* an int without fraction and exponent, a float otherwise
ParseNumber(s, i) ==
    IF ~DigitAt(s, NumStart(s, i)) THEN PFail(i)
    ELSE NumInt(s, i, IntEnd(s, NumStart(s, i)))

WNull == <<"n","u","l","l">>
WTrue == <<"t","r","u","e">>
WFalse == <<"f","a","l","s","e">>
WNaN == <<"N","a","N">>
WInfinity == <<"I","n","f","i","n","i","t","y">>

RECURSIVE ParseValue(_, _)
RECURSIVE ParseMembers(_, _, _)
RECURSIVE ParseElements(_, _, _)

\* after a member: d is at "," or at the closing brace
MemberNext(s, d, dict) ==
    IF d > Len(s) THEN PFail(d)
    ELSE IF s[d] = "}" THEN POk(JDict(dict), d + 1)
    ELSE IF s[d] = "," THEN ParseMembers(s, d + 1, dict)
    ELSE PFail(d)

\* v: the parse of the value of the member key; a later key wins
MemberValue(s, key, v, acc) ==
    IF ~v.ok THEN PFail(v.pos)
    ELSE MemberNext(s, SkipWs(s, v.pos), (key :> v.val) @@ acc)

\* k: the parse of the key; c: where the colon must be
MemberColon(s, k, c, acc) ==
    IF k.ok /\ c <= Len(s) /\ s[c] = ":"
    THEN MemberValue(s, k.val.v, ParseValue(s, SkipWs(s, c + 1)), acc)
    ELSE PFail(c)

MemberKey(s, k, acc) == MemberColon(s, k, SkipWs(s, k.pos), acc)

\* the members of an object from i on, where a key is expected, up to the
\* closing brace
ParseMembers(s, i, acc) ==
    IF SkipWs(s, i) <= Len(s) /\ s[SkipWs(s, i)] = Quote
    THEN MemberKey(s, ParseChars(s, SkipWs(s, i) + 1, <<>>), acc)
    ELSE PFail(i)

ElementNext(s, d, list) ==
    IF d > Len(s) THEN PFail(d)
    ELSE IF s[d] = "]" THEN POk(JList(list), d + 1)
    ELSE IF s[d] = "," THEN ParseElements(s, d + 1, list)
    ELSE PFail(d)

ElementValue(s, v, acc) ==
    IF ~v.ok THEN PFail(v.pos)
    ELSE ElementNext(s, SkipWs(s, v.pos), Append(acc, v.val))

\* the elements of an array from i on, where a value is expected, up to the
\* closing bracket
ParseElements(s, i, acc) == ElementValue(s, ParseValue(s, SkipWs(s, i)), acc)

\* a JSON value at i (i is not whitespace)
ParseValue(s, i) ==
    IF i > Len(s) THEN PFail(i)
    ELSE IF s[i] = Quote THEN ParseChars(s, i + 1, <<>>)
    ELSE IF s[i] = "{"
    THEN LET a == SkipWs(s, i + 1)
         IN  IF a <= Len(s) /\ s[a] = "}" THEN POk(JDict(EmptyDict), a + 1)
             ELSE ParseMembers(s, a, EmptyDict)
    ELSE IF s[i] = "["
    THEN LET a == SkipWs(s, i + 1)
         IN  IF a <= Len(s) /\ s[a] = "]" THEN POk(JList(<<>>), a + 1)
             ELSE ParseElements(s, a, <<>>)
    ELSE IF StartsWith(s, i, WNull) THEN POk(None, i + 4)
    ELSE IF StartsWith(s, i, WTrue) THEN POk(JBool(TRUE), i + 4)
    ELSE IF StartsWith(s, i, WFalse) THEN POk(JBool(FALSE), i + 5)
    ELSE IF StartsWith(s, i, WNaN) THEN POk(JFloat(NaN), i + 3)
    ELSE IF StartsWith(s, i, WInfinity) THEN POk(JFloat(Inf(1)), i + 8)
    ELSE IF StartsWith(s, i, <<"-">> \o WInfinity) THEN POk(JFloat(Inf(-1)), i + 9)
    ELSE ParseNumber(s, i)

\* v: the parse of the one value of the text
LoadsResult(text, v) ==
    IF ~v.ok THEN Raise("JSONDecodeError", Lit("Expecting value"))
    ELSE IF SkipWs(text, v.pos) <= Len(text)
    THEN Raise("JSONDecodeError", Lit("Extra data"))
    ELSE Ret(v.val)

\* json.loads(text): surrounding whitespace is skipped, one value is read
\* and nothing may follow it
JsonLoads(text) == LoadsResult(text, ParseValue(text, SkipWs(text, 1)))

---------------------------------------------------------------------------
(* llm_client.py: extract_json_from_response.                              *)

\* the symbol of the grave accent U+0060 (the character cannot be written
\* in a string of this module)
Backtick == "GRAVE"

FenceJson == <<Backtick, Backtick, Backtick, "j", "s", "o", "n">>
Fence == <<Backtick, Backtick, Backtick>>

\* the indices from i on at which s holds the marker
Occurrences(s, i, marker) == {k \in i..Len(s) : StartsWith(s, k, marker)}

Leftmost(occ) == CHOOSE k \in occ : \A j \in occ : k <= j

RECURSIVE RemoveMarker(_, _, _)

\* occ: where the marker occurs in s from i on
RemoveLeftmost(s, i, marker, occ) ==
    IF occ = {} THEN SubSeq(s, i, Len(s))
    ELSE SubSeq(s, i, Leftmost(occ) - 1)
         \o RemoveMarker(s, SkipWs(s, Leftmost(occ) + Len(marker)), marker)

\* re.sub(marker + r'\s*', '', s): every occurrence of the marker, left to
\* right, goes with the whitespace that follows it
RemoveMarker(s, i, marker) == RemoveLeftmost(s, i, marker, Occurrences(s, i, marker))

\* BraceSpan with a non-greedy match, from the first "{" to the first "}"
\* after it: C10 must fail with it
BraceSpan_shortest(s) ==
    LET opens == {i \in 1..Len(s) : s[i] = "{"}
        first == CHOOSE i \in opens : \A j \in opens : i <= j
        closes == {i \in 1..Len(s) : s[i] = "}" /\ i > first}
        last == CHOOSE i \in closes : \A j \in closes : i <= j
    IN  IF opens # {} /\ closes # {} THEN SubSeq(s, first, last) ELSE s

\* re.search(r'\{.*\}', s, re.DOTALL): greedy, from the first "{" to the
\* last "}" after it; the text itself when there is no such span
BraceSpan(s) ==
    LET opens == {i \in 1..Len(s) : s[i] = "{"}
        closes == {i \in 1..Len(s) : s[i] = "}"}
        first == CHOOSE i \in opens : \A j \in opens : i <= j
        last == CHOOSE i \in closes : \A j \in closes : i >= j
    IN  IF opens # {} /\ closes # {} /\ first < last
        THEN SubSeq(s, first, last) ELSE s

\* llm_client.py 67-79
extract_json_from_response(text) ==
    JsonLoads(BraceSpan(Strip(RemoveMarker(RemoveMarker(text, 1, FenceJson), 1, Fence))))

---------------------------------------------------------------------------
(* llm_client.py: evaluate_lead.                                           *)

\* config.py 11-14
KeyMissingMsg ==
    Lit("OPENAI_API_KEY environment variable is required. Please set it in your environment or Apify actor settings.")

\* llm_client.py 229-236: x is what extract_json_from_response returned or
\* raised; a JSONDecodeError is raised again as a ValueError
NormalizeExtracted(lead, x) ==
    IF x.exc = "JSONDecodeError"
    THEN Raise("ValueError", Lit("Invalid JSON in LLM response: ") \o x.msg)
    ELSE IF x.exc # "" THEN x
    ELSE normalize_evaluation(lead, x.val, None)

\* llm_client.py 196-240: the body of the try block.  has_key: whether
\* OPENAI_API_KEY is set.  call: what client.chat.completions.create does,
\* it raises (kind "raise", exc, msg) or returns (kind "content", content
\* being response.choices[0].message.content: None or a str).
EvaluateTry(lead, has_key, call) ==
    IF ~has_key THEN Raise("ValueError", KeyMissingMsg)
    ELSE IF call.kind = "raise" THEN Raise(call.exc, call.msg)
    ELSE IF ~Truthy(call.content)
    THEN Raise("ValueError", Lit("Empty response from LLM"))
    ELSE NormalizeExtracted(lead, extract_json_from_response(call.content.v))

\* llm_client.py 242-245: r is what the try block returned or raised
EvaluateExcept(lead, r) ==
    IF r.exc # ""
    THEN normalize_evaluation(lead, JDict(EmptyDict),
                              JStr(Lit("LLM evaluation failed: ") \o r.msg))
    ELSE r

\* evaluate_lead without the handler of lines 242-245: C2 must fail with it
evaluate_lead_uncaught(lead, has_key, call) == EvaluateTry(lead, has_key, call)

\* llm_client.py 190-245
evaluate_lead(lead, has_key, call) ==
    EvaluateExcept(lead, EvaluateTry(lead, has_key, call))

---------------------------------------------------------------------------
(* main.py: the orchestration loop.                                        *)

\* an instance of the pydantic model LeadInput with the fields f
LeadInputObject(f) == [t |-> "LeadInput", v |-> f]

\* Whether f(**x) can unpack x and whether x.get exists: both need a dict.
\* A pydantic model instance has neither keys() nor get().
IsMapping(x) == x.t = "dict"

\* models.py 18-26: the validation of the fields of a lead given as a dict.
\* The optional fields other than location only reach the prompt text.
ValidateLeadFields(d) ==
    LET name == Get(d, Lit("company_name"), None)
        url == Get(d, Lit("website_url"), None)
        loc == Get(d, Lit("location"), None)
    IN  IF name.t = "str" /\ url.t = "str" /\ loc.t \in {"null", "str"}
        THEN Ret([company_name |-> name.v, website_url |-> url.v, location |-> loc])
        ELSE Raise("ValidationError", Lit("validation error for LeadInput"))

\* main.py 37: LeadInput(**lead_data)
LeadInputCtor(lead_data) ==
    IF ~IsMapping(lead_data)
    THEN Raise("TypeError", Lit("argument after ** must be a mapping, not LeadInput"))
    ELSE ValidateLeadFields(lead_data.v)

\* main.py 22 with models.py 51-54: ActorInput(**actor_input).  The field
\* leads is a List[LeadInput]: validation turns every dict of the list into
\* a LeadInput instance, and fails as a whole when one of them is invalid.
ActorInputCtor(raw_input) ==
    IF ~IsMapping(raw_input)
    THEN Raise("TypeError", Lit("argument after ** must be a mapping"))
    ELSE LET leads == Get(raw_input.v, Lit("leads"), None)
             valid(x) == x.t = "dict" /\ ValidateLeadFields(x.v).exc = ""
         IN  IF leads.t = "list" /\ \A i \in 1..Len(leads.v) : valid(leads.v[i])
             THEN Ret([leads |-> [i \in 1..Len(leads.v) |->
                          LeadInputObject(ValidateLeadFields(leads.v[i].v).val)]])
             ELSE Raise("ValidationError", Lit("validation error for ActorInput"))

\* main.py 51-70: the error record of the except block, built with
\* lead_data.get
FallbackEvaluation(lead_data, error_msg) ==
    LET name == Get(lead_data.v, Lit("company_name"), JStr(Unknown))
        url == Get(lead_data.v, Lit("website_url"), JStr(<<>>))
        loc == Get(lead_data.v, Lit("location"), None)
        where == IF Truthy(loc) THEN loc ELSE JStr(Unknown)
    IN  IF name.t = "str" /\ url.t = "str" /\ where.t = "str"
        THEN LeadEvaluation([company_name |-> name.v,
                             website_url |-> url.v,
                             website_quality_score |-> 0,
                             branding_need |-> LOW,
                             online_presence_score |-> 0,
                             brand_value_match |-> LOW,
                             w6h |-> UnknownW6H(where.v),
                             qualified |-> FALSE,
                             reasons |-> <<error_msg>>,
                             error |-> JStr(error_msg)])
        ELSE Raise("ValidationError", Lit("validation error for LeadEvaluation"))

\* main.py 45-71: the except block, entered with the exception e.  Its log
\* line (48) evaluates lead_data.get(...) before the error record is built.
LoopExcept(lead_data, e) ==
    IF ~IsMapping(lead_data)
    THEN Raise("AttributeError", Lit("'LeadInput' object has no attribute 'get'"))
    ELSE FallbackEvaluation(lead_data, Lit("Failed to process lead: ") \o e.msg)

\* main.py 37-43: the try block: the record to push, or what it raises
LoopTry(lead, has_key, call) ==
    IF lead.exc # "" THEN lead ELSE evaluate_lead(lead.val, has_key, call)

LoopResult(lead_data, tried) ==
    IF tried.exc = "" THEN tried ELSE LoopExcept(lead_data, tried)

\* main.py 35-71: one iteration of the for loop.  Returns the record that
\* is pushed, or raises what leaves the loop.
LoopBody(lead_data, has_key, call) ==
    LoopResult(lead_data, LoopTry(LeadInputCtor(lead_data), has_key, call))

---------------------------------------------------------------------------
(* The inputs of the model.                                                *)

SeqsUpTo(A, n) == UNION {[1..k -> A] : k \in 0..n}

D1(k, v) == (Lit(k) :> v)

\* a field that the dict does not have
Absent == [t |-> "absent", v |-> 0]

\* the dict d with d[k] = v, or without k when v is Absent
With(d, k, v) ==
    IF v.t = "absent" THEN [x \in DOMAIN d \ {Lit(k)} |-> d[x]]
    ELSE (Lit(k) :> v) @@ d

Chars_low == <<"l","o","w">>
Chars_medium == <<"m","e","d","i","u","m">>
Chars_high == <<"h","i","g","h">>
Chars_urgent == <<"u","r","g","e","n","t">>
Chars_nan_text == <<"n","o","t","-","a","-","n","u","m","b","e","r">>

\* every upper/lower casing of the word w
CaseVariants(w) ==
    {[i \in 1..Len(w) |-> IF m[i] THEN UpperChar(w[i]) ELSE LowerChar(w[i])] :
        m \in [1..Len(w) -> BOOLEAN]}

Pads == {<<>>, <<" ">>, <<" ", " ">>, <<"\n">>, <<"\t", " ">>}

LevelStrings ==
    UNION {CaseVariants(w) : w \in Levels}
    \cup {pl \o w \o pr : pl \in Pads, pr \in Pads,
                          w \in {Chars_low, <<"M","e","d","i","u","m">>, HIGH, Chars_urgent}}
    \cup {<<>>, <<" ">>, <<"l","o"," ","w">>, <<"L","O","W","S">>, <<"H","I">>}

NonStrings == {None, JInt(1), JInt(0), JBool(TRUE), JList(<<JStr(HIGH)>>), JDict(EmptyDict)}

LevelValuesWide == {JStr(x) : x \in LevelStrings} \cup NonStrings \cup {Absent}
LevelValuesNarrow ==
    {JStr(LOW), JStr(MEDIUM), JStr(HIGH), JStr(Chars_low), JStr(Chars_urgent), None, Absent}

QualValues ==
    {JBool(TRUE), JBool(FALSE), Absent, None, JInt(1), JInt(0),
     JStr(<<"y","e","s">>), JStr(<<>>), JList(<<>>), JList(<<JBool(FALSE)>>)}

NumAlphabet == {"1", "9", ".", "-", "e", " "}

ScoreStrings ==
    SeqsUpTo(NumAlphabet, MaxNumLen)
    \cup {<<"4","2">>, <<"1","5","0">>, <<"-","5">>, <<" ","7","2",".","9","\n">>,
          <<"1","e","9","9","9">>, <<"-","1","e","9","9","9">>, <<"1","e","3","0","8">>,
          <<"1","0","0",".","0">>, <<"+","4","2">>, <<"i","n","f">>, <<"n","a","n">>,
          <<"4","2","x">>, Chars_nan_text}

ScoreValues ==
    {JInt(n) : n \in {-5, -1, 0, 1, 42, 72, 99, 100, 101, 150}}
    \cup {JStr(x) : x \in ScoreStrings}
    \cup {JFloat(Fin(72900)), JFloat(Fin(-500)), JFloat(Fin(100999)), JFloat(Inf(1)),
          JFloat(Inf(-1)), JFloat(NaN)}
    \cup {Absent, None, JBool(TRUE), JBool(FALSE), JList(<<JInt(5)>>), JDict(EmptyDict)}

BaseW6H ==
    D1("who", JStr(Lit("Small retailers"))) @@ D1("what", JStr(Lit("Handmade goods")))
    @@ D1("where", JStr(Lit("Lyon"))) @@ D1("when", JStr(Lit("Since 2015")))
    @@ D1("why", JStr(Lit("Craft"))) @@ D1("how", JStr(Lit("Online shop")))
    @@ D1("how_much", JStr(Lit("Mid-range")))

W6HValues ==
    {JDict(BaseW6H), JDict(EmptyDict), Absent, None, JList(<<>>), JStr(Lit("n/a")), JInt(0),
     JBool(FALSE), JDict(D1("who", JStr(Lit("Students")))),
     JDict(D1("where", None) @@ D1("when", JInt(2015)) @@ D1("how_much", JFloat(Fin(2500)))),
     JDict(With(BaseW6H, "where", Absent)),
     JDict(With(BaseW6H, "why", JList(<<JInt(1), JStr(<<"a">>)>>)))}

ReasonsValues ==
    {Absent, None, JList(<<>>), JStr(<<>>), JInt(0), JBool(FALSE), JDict(EmptyDict),
     JFloat(Fin(0)),
     JStr(Lit("Just one")), JInt(5), JBool(TRUE), JDict(D1("a", JInt(1))), JFloat(Fin(2500)),
     JList(<<JStr(<<>>)>>), JList(<<None, JInt(0), JStr(<<>>), JList(<<>>), JBool(FALSE)>>),
     JList(<<JStr(Lit("Strong need"))>>),
     JList(<<JStr(Lit("a")), None, JStr(Lit("b"))>>),
     JList(<<JInt(1), JFloat(Fin(2500)), JBool(TRUE), JStr(<<" ">>)>>),
     JList(<<JList(<<JStr(<<"x">>)>>), JInt(0), JStr(Lit("c")), JStr(Lit("a"))>>),
     JList(<<JStr(Lit("a")), JStr(Lit("b")), JStr(Lit("c")), JStr(Lit("d"))>>)}

\* the reply of the end-to-end scenario
BaseResponse ==
    D1("website_quality_score", JInt(72)) @@ D1("branding_need", JStr(HIGH))
    @@ D1("online_presence_score", JInt(40)) @@ D1("brand_value_match", JStr(MEDIUM))
    @@ D1("w6h", JDict(BaseW6H)) @@ D1("qualified", JBool(TRUE))
    @@ D1("reasons", JList(<<JStr(Lit("Strong need"))>>))

ResponseKeys == DOMAIN BaseResponse

ScoreResponses ==
    {With(BaseResponse, k, x) :
        k \in {"website_quality_score", "online_presence_score"}, x \in ScoreValues}

LevelPairs ==
    (LevelValuesWide \X LevelValuesNarrow \X {JBool(TRUE), JBool(FALSE)})
    \cup (LevelValuesNarrow \X LevelValuesWide \X {JBool(TRUE), JBool(FALSE)})
    \cup (LevelValuesNarrow \X LevelValuesNarrow \X QualValues)

LevelResponses ==
    {With(With(With(BaseResponse, "branding_need", x[1]), "brand_value_match", x[2]),
          "qualified", x[3]) : x \in LevelPairs}

W6HResponses == {With(BaseResponse, "w6h", x) : x \in W6HValues}
ReasonsResponses == {With(BaseResponse, "reasons", x) : x \in ReasonsValues}
PartialResponses == {[k \in ks |-> BaseResponse[k]] : ks \in SUBSET ResponseKeys}

\* the decoded replies normalize_evaluation is called with
Responses ==
    {JDict(r) : r \in ScoreResponses \cup LevelResponses \cup W6HResponses
                      \cup ReasonsResponses \cup PartialResponses}
    \cup {JList(<<>>), JList(<<JInt(1)>>), JStr(Lit("ok")), JInt(7), None}

\* the replies that reach evaluate_lead as a text
TextResponses ==
    {JDict(r) : r \in W6HResponses \cup ReasonsResponses \cup PartialResponses
                      \cup {With(BaseResponse, "website_quality_score", x) :
                              x \in {JInt(150), JStr(<<"4","2">>), JFloat(Fin(72900)),
                                     JStr(<<"1","e","9","9","9">>), JFloat(Inf(1)), None}}
                      \cup {With(With(With(BaseResponse, "branding_need", x[1]),
                                      "brand_value_match", x[2]), "qualified", x[3]) :
                              x \in LevelValuesNarrow \X LevelValuesNarrow \X QualValues}}
    \cup {JList(<<JInt(1)>>), JStr(Lit("ok")), JInt(7), None}

Errors == {None, JStr(<<>>), JStr(Lit("boom")), JStr(Lit("LLM evaluation failed: timeout"))}

Leads ==
    {[company_name |-> Lit("Acme"), website_url |-> Lit("acme.com"), location |-> None],
     [company_name |-> Lit("Bolt"), website_url |-> Lit("bolt.io"),
      location |-> JStr(Lit("Berlin"))],
     [company_name |-> Lit("Cobalt & Co"), website_url |-> Lit("cobalt.example"),
      location |-> JStr(<<>>)]}

Lead1 == [company_name |-> Lit("Acme"), website_url |-> Lit("acme.com"), location |-> None]

---------------------------------------------------------------------------
(* The reply texts: json.dumps of a value, as the LLM would write it.      *)

Unescapes == (Quote :> Quote) @@ (Backslash :> Backslash)
             @@ ("\n" :> "n") @@ ("\t" :> "t") @@ ("\r" :> "r")

RECURSIVE EscapeChars(_)
EscapeChars(x) ==
    IF x = <<>> THEN <<>>
    ELSE (IF Head(x) \in DOMAIN Unescapes THEN <<Backslash, Unescapes[Head(x)]>>
          ELSE <<Head(x)>>) \o EscapeChars(Tail(x))

RECURSIVE Dumps(_)
RECURSIVE DumpItems(_, _)
RECURSIVE DumpMembers(_, _, _)
DumpItems(xs, i) ==
    IF i > Len(xs) THEN <<>>
    ELSE (IF i > 1 THEN <<",", " ">> ELSE <<>>) \o Dumps(xs[i]) \o DumpItems(xs, i + 1)

DumpMembers(d, ks, i) ==
    IF i > Len(ks) THEN <<>>
    ELSE (IF i > 1 THEN <<",", " ">> ELSE <<>>)
         \o <<Quote>> \o EscapeChars(ks[i]) \o <<Quote, ":", " ">> \o Dumps(d[ks[i]])
         \o DumpMembers(d, ks, i + 1)

Dumps(x) ==
    CASE x.t = "null" -> WNull
      [] x.t = "bool" -> IF x.v THEN WTrue ELSE WFalse
      [] x.t = "int" -> IntStr(x.v)
      [] x.t = "float" ->
           IF x.v.cls = "inf" THEN (IF x.v.n < 0 THEN <<"-">> ELSE <<>>) \o WInfinity
           ELSE IF x.v.cls = "nan" THEN WNaN
           ELSE FloatStr(x.v)
      [] x.t = "str" -> <<Quote>> \o EscapeChars(x.v) \o <<Quote>>
      [] x.t = "list" -> <<"[">> \o DumpItems(x.v, 1) \o <<"]">>
      [] x.t = "dict" -> <<"{">> \o DumpMembers(x.v, KeyOrder(DOMAIN x.v), 1) \o <<"}">>

\* the text in a ```json fenced block, with the whitespace ws inside the fences
FenceWrap(text, ws) == FenceJson \o ws \o text \o ws \o Fence

BaseText == Dumps(JDict(BaseResponse))

ReplyTexts ==
    {Dumps(r) : r \in TextResponses}
    \cup {FenceWrap(BaseText, ws) : ws \in {<<>>, <<"\n">>, <<" ">>}}
    \cup {Fence \o <<"\n">> \o BaseText \o <<"\n">> \o Fence,
          Lit("Here is the evaluation: ") \o BaseText \o Lit(" Hope this helps."),
          BaseText \o <<" ", "}">>,
          SubSeq(BaseText, 1, Len(BaseText) - 1),
          <<" ">>, <<"{">>, <<"}">>, <<"{", "}">>, Lit("I cannot evaluate this lead."),
          <<"{", Quote, "qualified", Quote, ":", " ", "t", "r", "u", "e", ",", "}">>}

\* what a call does: normalize_evaluation called with a decoded reply and an
\* error, or evaluate_lead whose completion call raises or returns a content
DecodedCall(r, e) ==
    [kind |-> "decoded", exc |-> "", msg |-> <<>>, content |-> None, response |-> r, error |-> e]
RaiseCall(exc, msg) ==
    [kind |-> "raise", exc |-> exc, msg |-> msg, content |-> None, response |-> None, error |-> None]
ContentCall(c) ==
    [kind |-> "content", exc |-> "", msg |-> <<>>, content |-> c, response |-> None, error |-> None]

RaiseCalls ==
    {RaiseCall("APITimeoutError", Lit("timeout")),
     RaiseCall("AuthenticationError", Lit("Incorrect API key provided")),
     RaiseCall("IndexError", Lit("list index out of range"))}

LLMCalls ==
    RaiseCalls \cup {ContentCall(None), ContentCall(JStr(<<>>))}
    \cup {ContentCall(JStr(x)) : x \in ReplyTexts}

FewCalls ==
    RaiseCalls \cup {ContentCall(None), ContentCall(JStr(BaseText)),
                     ContentCall(JStr(<<"{">>))}

\* (lead, has_key, call) of the llm_client specification
EvalInputs ==
    ({Lead1} \X {TRUE} \X {DecodedCall(r, None) : r \in Responses})
    \cup (Leads \X {TRUE}
          \X {DecodedCall(r, e) :
                r \in {JDict(BaseResponse), JDict(EmptyDict),
                       JDict(With(BaseResponse, "w6h", Absent)), JList(<<>>)},
                e \in Errors})
    \cup ({Lead1} \X {TRUE} \X LLMCalls)
    \cup (Leads \X BOOLEAN \X FewCalls)


StrAlphabet == {Backtick, "{", "}", " ", "x"}

\* JSON object texts j: one member whose value is a string over StrAlphabet,
\* a number, a constant, an array or an object, with optional whitespace
JsonValueTexts ==
    {<<Quote>> \o x \o <<Quote>> : x \in SeqsUpTo(StrAlphabet, MaxStrLen)}
    \cup {<<"1">>, <<"-", "2", ".", "5">>, WNull, WTrue, <<"{", "}">>,
          <<"{", Quote, "b", Quote, ":", "{", Quote, "c", Quote, ":", "0", "}", "}">>,
          <<"[", "1", ",", " ", "{", "}", "]">>}

JsonObjectTexts ==
    {pre \o <<"{", Quote, "a", Quote, ":">> \o pre \o x \o <<"}">> \o post :
        pre \in {<<>>, <<" ">>}, post \in {<<>>, <<"\n">>}, x \in JsonValueTexts}
    \cup {<<"{", "}">>, BaseText,
          <<"{", Quote>> \o Fence \o <<Quote, ":", "1", ",", " ", Quote, "b", Quote, ":", "2", "}">>,
          <<"{", Quote, "a", Quote, ":", Quote>> \o FenceJson \o <<" ", "x", Quote, "}">>}

\* the leads of an actor input, as the dicts of its JSON
RawLeads ==
    {JDict(D1("company_name", JStr(Lit("Acme"))) @@ D1("website_url", JStr(Lit("acme.com")))),
     JDict(D1("company_name", JStr(Lit("Bolt"))) @@ D1("website_url", JStr(Lit("bolt.io")))
           @@ D1("location", JStr(Lit("Berlin")))),
     JDict(D1("company_name", JStr(Lit("Cobalt & Co")))
           @@ D1("website_url", JStr(Lit("cobalt.example"))) @@ D1("location", None)),
     JDict(D1("website_url", JStr(Lit("nameless.example")))),
     JDict(D1("company_name", JInt(42)) @@ D1("website_url", JStr(Lit("42.example"))))}

ActorInputs ==
    {None, JDict(EmptyDict), JDict(D1("openai_model", JStr(Lit("gpt-4o")))),
     JList(<<>>)}
    \cup {JDict(D1("leads", JList(ls))) : ls \in SeqsUpTo(RawLeads, MaxLeads)}

---------------------------------------------------------------------------
(* The specifications.                                                     *)

NoResult == Ret(None)

IdleMain ==
    /\ pc = "idle" /\ actor_input = None /\ input_data = None
    /\ idx = 0 /\ dataset = <<>> /\ handled = 0

IdleEval ==
    /\ ev_pc = "idle" /\ ev_lead = Lead1 /\ ev_env = TRUE
    /\ ev_call = ContentCall(None) /\ ev_via = "" /\ ev_result = NoResult

IdleExtract ==
    /\ ex_pc = "idle" /\ ex_json = <<>> /\ ex_out = NoResult /\ ex_direct = NoResult

(* main.py *)

Init ==
    /\ pc = "start"
    /\ actor_input \in ActorInputs
    /\ input_data = None
    /\ idx = 0
    /\ dataset = <<>>
    /\ handled = 0
    /\ IdleEval
    /\ IdleExtract

\* main.py 14-18
GetInput ==
    /\ pc = "start"
    /\ pc' = IF Truthy(actor_input) THEN "validate" ELSE "returned"
    /\ UNCHANGED <<actor_input, input_data, idx, dataset, handled, ev_vars, ex_vars>>

\* main.py 21-31
ValidateInput ==
    /\ pc = "validate"
    /\ LET r == ActorInputCtor(actor_input)
       IN  IF r.exc # ""
           THEN pc' = "returned" /\ UNCHANGED <<input_data, idx>>
           ELSE pc' = "loop" /\ input_data' = r.val /\ idx' = 1
    /\ UNCHANGED <<actor_input, dataset, handled, ev_vars, ex_vars>>

\* main.py 34-71: one iteration.  An exception that leaves the loop body
\* leaves main.
ProcessLead ==
    /\ pc = "loop"
    /\ idx <= Len(input_data.leads)
    /\ \E has_key \in BOOLEAN, call \in FewCalls :
          LET r == LoopBody(input_data.leads[idx], has_key, call)
          IN  IF r.exc = ""
              THEN /\ dataset' = Append(dataset, r.val)
                   /\ idx' = idx + 1
                   /\ pc' = pc
              ELSE /\ pc' = "crashed"
                   /\ UNCHANGED <<dataset, idx>>
    /\ handled' = handled + 1
    /\ UNCHANGED <<actor_input, input_data, ev_vars, ex_vars>>

\* main.py 73
FinishLoop ==
    /\ pc = "loop"
    /\ idx > Len(input_data.leads)
    /\ pc' = "finished"
    /\ UNCHANGED <<actor_input, input_data, idx, dataset, handled, ev_vars, ex_vars>>

Next == GetInput \/ ValidateInput \/ ProcessLead \/ FinishLoop

Spec == Init /\ [][Next]_vars

(* llm_client.py: normalize_evaluation and evaluate_lead on their inputs *)

InitEval ==
    /\ IdleMain
    /\ IdleExtract
    /\ ev_pc = "start"
    /\ \E x \in EvalInputs : ev_lead = x[1] /\ ev_env = x[2] /\ ev_call = x[3]
    /\ ev_via = ""
    /\ ev_result = NoResult

\* a call of normalize_evaluation(lead, llm_response, error)
NormalizeCall ==
    /\ ev_pc = "start"
    /\ ev_call.kind = "decoded"
    /\ ev_pc' = "done"
    /\ ev_via' = "normalize_evaluation"
    /\ ev_result' = normalize_evaluation(ev_lead, ev_call.response, ev_call.error)
    /\ UNCHANGED <<ev_lead, ev_env, ev_call, main_vars, ex_vars>>

\* a call of evaluate_lead(lead)
EvaluateLeadCall ==
    /\ ev_pc = "start"
    /\ ev_call.kind # "decoded"
    /\ ev_pc' = "done"
    /\ ev_via' = "evaluate_lead"
    /\ ev_result' = evaluate_lead(ev_lead, ev_env, ev_call)
    /\ UNCHANGED <<ev_lead, ev_env, ev_call, main_vars, ex_vars>>

NextEval == NormalizeCall \/ EvaluateLeadCall

SpecEval == InitEval /\ [][NextEval]_vars

(* llm_client.py: extract_json_from_response on a fenced JSON object text *)

InitExtract ==
    /\ IdleMain
    /\ IdleEval
    /\ ex_pc = "start"
    /\ ex_json \in JsonObjectTexts
    /\ ex_out = NoResult
    /\ ex_direct = NoResult

ExtractCall ==
    /\ ex_pc = "start"
    /\ ex_pc' = "done"
    /\ \E ws \in {<<>>, <<"\n">>, <<" ", "\n">>} :
          ex_out' = extract_json_from_response(FenceWrap(ex_json, ws))
    /\ ex_direct' = JsonLoads(ex_json)
    /\ UNCHANGED <<ex_json, main_vars, ev_vars>>

NextExtract == ExtractCall

SpecExtract == InitExtract /\ [][NextExtract]_vars

---------------------------------------------------------------------------
(* The properties.                                                         *)

\* normalize_evaluation, or evaluate_lead, has been called and has ended
NormalizeDone == ev_pc = "done" /\ ev_via = "normalize_evaluation"
EvaluateDone == ev_pc = "done" /\ ev_via = "evaluate_lead"

\* the call returned a LeadEvaluation
Returned == ev_result.exc = ""

\* normalize_evaluation was called without an error, on a decoded mapping
NormalPath ==
    NormalizeDone /\ ~Truthy(ev_call.error) /\ ev_call.response.t = "dict"

\* the raw field k of the reply normalize_evaluation was called with
Raw(k) == Get(ev_call.response.v, Lit(k), Absent)

\* the raw field k is the str s
RawIsStr(k, s) == Raw(k).t = "str" /\ Raw(k).v = s

\* the fixed placeholder values of an error record
Placeholders(e) ==
    /\ e.qualified = FALSE
    /\ e.website_quality_score = 0 /\ e.online_presence_score = 0
    /\ e.branding_need = LOW /\ e.brand_value_match = LOW

\* main has ended: by a return, at the end of the loop, or by an exception
MainEnded == pc \in {"returned", "finished", "crashed"}

\* the actor input holds a list of leads
HasLeads == actor_input.t = "dict" /\ Get(actor_input.v, Lit("leads"), None).t = "list"
InputLeads == actor_input.v[Lit("leads")].v

\* C1: for an actor input whose list holds N leads, main ends at the end of
\* its loop with exactly N records pushed, whatever happened to each lead.
C1_OneRecordPerLead ==
    (MainEnded /\ HasLeads) => (pc = "finished" /\ Len(dataset) = Len(InputLeads))

\* the message m of the failure inside evaluate_lead
FailureInside ==
    \/ ~ev_env
    \/ ev_call.kind = "raise"
    \/ ~Truthy(ev_call.content)
    \/ extract_json_from_response(ev_call.content.v).exc = "JSONDecodeError"

FailureMessage ==
    IF ~ev_env THEN KeyMissingMsg
    ELSE IF ev_call.kind = "raise" THEN ev_call.msg
    ELSE IF ~Truthy(ev_call.content) THEN Lit("Empty response from LLM")
    ELSE Lit("Invalid JSON in LLM response: ")
         \o extract_json_from_response(ev_call.content.v).msg

\* C2: evaluate_lead never raises; after a failure with message m (no API
\* key, the call raising, an empty completion, an unparsable reply) it
\* returns the error record: error is "LLM evaluation failed: " + m, the
\* placeholders, reasons ["Evaluation failed: " + error], and the names of
\* the lead.
C2_ErrorRecord ==
    EvaluateDone =>
        /\ Returned
        /\ FailureInside =>
              /\ ev_result.val.error
                   = JStr(Lit("LLM evaluation failed: ") \o FailureMessage)
              /\ Placeholders(ev_result.val)
              /\ ev_result.val.reasons
                   = <<Lit("Evaluation failed: ") \o Lit("LLM evaluation failed: ")
                       \o FailureMessage>>
              /\ ev_result.val.company_name = ev_lead.company_name
              /\ ev_result.val.website_url = ev_lead.website_url

\* the call failed with "timeout" and the error record carries it
C2_Witness ==
    /\ EvaluateDone /\ ev_env
    /\ ev_call.kind = "raise" /\ ev_call.msg = Lit("timeout")
    /\ ev_result.val.error = JStr(<<"LLM evaluation failed: ", "timeout">>)
    /\ ev_result.val.reasons = <<<<"Evaluation failed: ", "LLM evaluation failed: ", "timeout">>>>

\* two LOW levels disqualify
LowLowDisqualifies(e) ==
    (e.branding_need = LOW /\ e.brand_value_match = LOW) => e.qualified = FALSE

\* C3: in every LeadEvaluation (the normal path and the error path of
\* normalize_evaluation, the record of the except block of main) two LOW
\* levels imply qualified = false, whatever the raw qualified value was.
C3_LowLowUnqualified ==
    /\ (ev_pc = "done" /\ Returned) => LowLowDisqualifies(ev_result.val)
    /\ \A k \in 1..Len(dataset) : LowLowDisqualifies(dataset[k])
    /\ \A d \in RawLeads :
          LET f == FallbackEvaluation(d, Lit("Failed to process lead: boom"))
          IN  f.exc = "" => LowLowDisqualifies(f.val)

\* the reply says qualified with two LOW levels, and the record says no
C3_Witness ==
    /\ NormalPath /\ Returned
    /\ Raw("qualified").t \notin {"bool", "absent"} /\ Truthy(Raw("qualified"))
    /\ RawIsStr("branding_need", Chars_low)
    /\ Raw("brand_value_match").t = "absent"
    /\ ev_result.val.branding_need = LOW /\ ev_result.val.brand_value_match = LOW
    /\ ev_result.val.qualified = FALSE

\* C4: normalize_evaluation, called with no error and a decoded mapping
\* (fields absent, null or of the wrong type), never raises.
C4_NeverRaises == NormalPath => Returned

ScoreKeys == {"website_quality_score", "online_presence_score"}
LevelKeys == {"branding_need", "brand_value_match"}

\* a str that writes a number: it has a digit and float() accepts it
NumericString(raw) ==
    /\ raw.t = "str"
    /\ \E i \in 1..Len(raw.v) : IsDigit(raw.v[i])
    /\ FloatOfStr(raw.v).exc = ""

\* min(100, max(0, n))
Clamped(n) == IF n < 0 THEN 0 ELSE IF n > 100 THEN 100 ELSE n

\* the raw scores the statement is about
StatedScore(raw) ==
    \/ raw.t \in {"int", "absent"}
    \/ NumericString(raw)
    \/ (raw.t = "str" /\ raw.v = Chars_nan_text)

\* C6: a raw score that is an integer or a numeric string is truncated and
\* clamped into 0..100 (-5 gives 0, 150 gives 100, "42" gives 42), an absent
\* or non-numeric one ("not-a-number") gives 0; the reply is never rejected.
\* (Stated for the replies whose w6h is a mapping or absent.)
C6_ScoresClamped ==
    (/\ NormalPath
     /\ Raw("w6h").t \in {"dict", "absent"}
     /\ \A k \in ScoreKeys : StatedScore(Raw(k))) =>
        /\ Returned
        /\ \A k \in ScoreKeys :
              /\ ev_result.val[k] \in 0..100
              /\ Raw(k).t = "int" => ev_result.val[k] = Clamped(Raw(k).v)
              /\ RawIsStr(k, <<"4", "2">>) => ev_result.val[k] = 42
              /\ (Raw(k).t = "absent" \/ RawIsStr(k, Chars_nan_text)) =>
                    ev_result.val[k] = 0

\* whether s is the word w in some casing with whitespace around it
IsPaddedWord(s, w) ==
    \E a \in 0..Len(s), b \in 0..Len(s) :
        /\ a + Len(w) + b = Len(s)
        /\ \A i \in 1..a : s[i] \in Whitespace
        /\ \A i \in 1..b : s[a + Len(w) + i] \in Whitespace
        /\ \A i \in 1..Len(w) : s[a + i] \in {w[i], LowerChar(w[i])}

\* the level a raw value stands for
ExpectedLevel(raw) ==
    IF raw.t = "str" /\ \E w \in Levels : IsPaddedWord(raw.v, w)
    THEN CHOOSE w \in Levels : IsPaddedWord(raw.v, w)
    ELSE LOW

\* C7: a raw level that is a string whose uppercased, trimmed form is LOW,
\* MEDIUM or HIGH gives that form; any other string, any value that is not
\* a string and an absent field give LOW.
C7_LevelsNormalized ==
    (NormalPath /\ Returned) =>
        \A k \in LevelKeys :
            /\ ev_result.val[k] \in Levels
            /\ ev_result.val[k] = ExpectedLevel(Raw(k))

\* "  Medium " became MEDIUM and a word that is no level became LOW
C7_Witness ==
    /\ NormalPath /\ Returned
    /\ RawIsStr("branding_need", <<" ", " ", "M", "e", "d", "i", "u", "m", " ">>)
    /\ ev_result.val.branding_need = MEDIUM
    /\ RawIsStr("brand_value_match", Chars_urgent)
    /\ ev_result.val.brand_value_match = LOW

\* the elements of the raw reasons that are kept
KeptReasons(raw) ==
    IF raw.t = "absent" THEN <<>>
    ELSE IF raw.t = "list" THEN SelectSeq(raw.v, Truthy)
    ELSE IF Truthy(raw) THEN <<raw>>
    ELSE <<>>

ExpectedReasons(raw) ==
    IF KeptReasons(raw) = <<>> THEN <<NoReasons>>
    ELSE [i \in 1..Len(KeptReasons(raw)) |-> PyStr(KeptReasons(raw)[i])]

\* C8: reasons is never empty: absent, empty or all-falsy raw reasons give
\* ["No reasons provided"]; otherwise the string forms of the truthy
\* elements in order, a truthy value that is no list counting as one element.
C8_ReasonsNonEmpty ==
    /\ (ev_pc = "done" /\ Returned) => ev_result.val.reasons # <<>>
    /\ (NormalPath /\ Returned) =>
          ev_result.val.reasons = ExpectedReasons(Raw("reasons"))

\* falsy elements were dropped from a list and the order of the others kept
C8_Witness ==
    /\ NormalPath /\ Returned
    /\ Raw("reasons").t = "list"
    /\ Raw("reasons").v = <<JStr(Lit("a")), None, JStr(Lit("b"))>>
    /\ ev_result.val.reasons = <<Lit("a"), Lit("b")>>

\* a reply in which every field is regular
WellFormed ==
    /\ \A k \in ScoreKeys : Raw(k).t = "int" /\ Raw(k).v \in 0..100
    /\ \A k \in LevelKeys : Raw(k).t = "str" /\ Raw(k).v \in Levels
    /\ ~(Raw("branding_need").v = LOW /\ Raw("brand_value_match").v = LOW)
    /\ Raw("qualified").t = "bool"
    /\ Raw("reasons").t = "list" /\ Raw("reasons").v # <<>>
    /\ \A i \in 1..Len(Raw("reasons").v) :
          Raw("reasons").v[i].t = "str" /\ Raw("reasons").v[i].v # <<>>
    /\ Raw("w6h").t = "dict"
    /\ \A f \in W6HFields :
          Lit(f) \in DOMAIN Raw("w6h").v /\ Raw("w6h").v[Lit(f)].t = "str"

\* C9: on a well-formed reply normalize_evaluation is a pass-through: every
\* field of the record is the value of the reply, the names are those of
\* the lead, and there is no error.
C9_PassThrough ==
    (NormalPath /\ WellFormed) =>
        /\ Returned
        /\ \A k \in ScoreKeys \cup LevelKeys \cup {"qualified"} :
              ev_result.val[k] = Raw(k).v
        /\ ev_result.val.reasons
             = [i \in 1..Len(Raw("reasons").v) |-> Raw("reasons").v[i].v]
        /\ \A f \in W6HFields : ev_result.val.w6h[f] = Raw("w6h").v[Lit(f)].v
        /\ ev_result.val.company_name = ev_lead.company_name
        /\ ev_result.val.website_url = ev_lead.website_url
        /\ ev_result.val.error = None

\* a qualified reply with the highest score went through unchanged
C9_Witness ==
    /\ NormalPath /\ WellFormed /\ Returned
    /\ Raw("website_quality_score").t = "int" /\ Raw("website_quality_score").v = 100
    /\ ev_result.val.website_quality_score = 100
    /\ ev_result.val.qualified = TRUE
    /\ ev_result.val.company_name = Lit("Acme")

\* j is a JSON object text
IsObjectText == ex_direct.exc = "" /\ ex_direct.val.t = "dict"

\* j holds a fence marker
HasMarker == \E i \in 1..Len(ex_json) : StartsWith(ex_json, i, Fence)

\* C10 as stated: for every JSON object text j, the extraction from j in a
\* fenced block equals the parse of j.
C10_RoundTrip ==
    (ex_pc = "done" /\ IsObjectText) => ex_out = ex_direct

\* C10: for every JSON object text j that holds no fence marker, the
\* extraction from j in a fenced block equals the parse of j.
C10_RoundTripNoMarker ==
    (ex_pc = "done" /\ IsObjectText /\ ~HasMarker) => ex_out = ex_direct

\* an object with a nested object and no marker came back as parsed
C10_Witness ==
    /\ ex_pc = "done" /\ IsObjectText /\ ~HasMarker
    /\ \E k \in DOMAIN ex_direct.val.v : ex_direct.val.v[k].t = "dict"
    /\ ex_out = ex_direct

=============================================================================
